---- MODULE Spec2Model ----
(***************************************************************************)
(* The storage engine abstraction of src/storage/engine/mod.rs: the Engine *)
(* trait (get, seek, write and the put/delete wrappers), the Modify and    *)
(* Descriptor variants, the new_engine factory and the Error type.  The    *)
(* two backends behind the trait (memory.rs: an ordered map; rocksdb.rs:   *)
(* an adapter over the LSM library) are modelled from sections 4.2 and 4.3 *)
(* of the specification.                                                   *)
(***************************************************************************)
EXTENDS Integers, Sequences, FiniteSets, TLC

VARIABLES
    engines,    \* handle -> the Box<Engine> it holds, or NoEngine
    disk,       \* path -> the database rooted there, or NoDb
    last,       \* the last call made on a handle and what it returned
    hist        \* handle -> what the caller has done to each key (history)

vars == <<engines, disk, last, hist>>

----------------------------------------------------------------------------
(* Bounds and input samples *)

\* The longest batch a caller hands to write.
MaxBatch == 2

\* Byte strings used as keys: the empty key (a proper prefix of the others), a
\* longer key with a small first byte, a shorter key whose first byte is above
\* 127 (unsigned order, and no order by length).
Keys == { <<>>, <<1, 200>>, <<200>> }

\* The keys of the batches the callers hand to write (put and delete are
\* called on every key).
BatchKeys == { <<>>, <<200>> }

\* Byte strings used as probes of seek: the keys, a proper prefix of a key
\* that is no key, and a string after every key.
Probes == Keys \cup { <<1>>, <<201>> }

\* Byte strings used as values: the empty value and a non-empty one.
Values == { <<>>, <<1>> }

\* The paths of persistent stores: one that holds no database, and the fixed
\* path of the test, where an earlier run has left one.
Paths == { "/tmp/new", "/tmp/rocks" }

Handles == { 1, 2 }

\* The handles the callers of Spec use.
SpecHandles == { 1 }

\* The errors the LSM library reports.
BackendErrors == { "IO error", "Corruption" }

----------------------------------------------------------------------------
(* Option and Result *)

None == [some |-> FALSE]
Some(x) == [some |-> TRUE, val |-> x]

Ok(x) == [ok |-> TRUE, val |-> x]
Err(e) == [ok |-> FALSE, err |-> e]

\* The value of a call that returns nothing: ().
Unit == [unit |-> TRUE]

\* Error::Other(Box<error::Error>)
Other(e) == [kind |-> "Other", error |-> e]

----------------------------------------------------------------------------
(* Error: Display and error::Error of the one variant Other *)

\* The error objects of the library: what each displays, how it describes
\* itself and the error that caused it, if any.
ErrorObject(e) ==
    CASE e = "IO error" ->
           [display |-> "IO error: No space left on device",
            description |-> "IO error",
            cause |-> Some("No space left on device")]
      [] e = "Corruption" ->
           [display |-> "Corruption: block checksum mismatch",
            description |-> "Corruption",
            cause |-> None]
      [] OTHER -> [display |-> e, description |-> e, cause |-> None]

\* Error::Other(ref error) => Display::fmt(error, f)
fmt(err) == ErrorObject(err.error).display

\* &Error::Other(ref e) => e.description()
description(err) == ErrorObject(err.error).description

\* Mutant of cause: the wrapped error is given as the cause.
cause_wrapped(err) == Some(err.error)

\* &Error::Other(ref e) => e.cause()
cause(err) == ErrorObject(err.error).cause

----------------------------------------------------------------------------
(* Modify, Descriptor *)

Delete(k) == [type |-> "Delete", key |-> k]
Put(k, v) == [type |-> "Put", key |-> k, value |-> v]

\* The modifications of the keys ks, and the batches of them.
ModifiesOn(ks) == { Delete(k) : k \in ks } \cup { Put(k, v) : k \in ks, v \in Values }

BatchesOn(ks) == UNION { [1..n -> ModifiesOn(ks)] : n \in 0..MaxBatch }

Batches == BatchesOn(Keys)

Memory == [type |-> "Memory"]
RocksDBPath(p) == [type |-> "RocksDBPath", path |-> p]

Descriptors == { Memory } \cup { RocksDBPath(p) : p \in Paths }

----------------------------------------------------------------------------
(* Key order: lexicographic over unsigned bytes, a proper prefix first *)

RECURSIVE LexLess(_, _)
LexLess(a, b) ==
    IF b = <<>> THEN FALSE
    ELSE IF a = <<>> THEN TRUE
    ELSE IF Head(a) # Head(b) THEN Head(a) < Head(b)
    ELSE LexLess(Tail(a), Tail(b))

----------------------------------------------------------------------------
(* Memory backend (BTreeEngine): an ordered map from key to value, here the *)
(* sequence of its entries <<key, value>> in ascending key order.           *)

BTreeNew == << >>

RECURSIVE BTreeInsert(_, _, _)
BTreeInsert(m, k, v) ==
    IF m = << >> THEN << <<k, v>> >>
    ELSE IF Head(m)[1] = k THEN << <<k, v>> >> \o Tail(m)
    ELSE IF LexLess(k, Head(m)[1]) THEN << <<k, v>> >> \o m
    ELSE << Head(m) >> \o BTreeInsert(Tail(m), k, v)

BTreeRemove(m, k) == SelectSeq(m, LAMBDA e : e[1] # k)

BTreeGet(m, k) ==
    LET hit == SelectSeq(m, LAMBDA e : e[1] = k)
    IN  IF hit = << >> THEN None ELSE Some(hit[1][2])

\* range(key..).next(): the first entry at or after the probe.
BTreeSeek(m, q) ==
    LET rng == SelectSeq(m, LAMBDA e : ~LexLess(e[1], q))
    IN  IF rng = << >> THEN None ELSE Some(rng[1])

BTreeApply(m, mod) ==
    IF mod.type = "Put" THEN BTreeInsert(m, mod.key, mod.value)
    ELSE BTreeRemove(m, mod.key)

\* Each modification is applied in sequence.
RECURSIVE BTreeWrite(_, _)
BTreeWrite(m, batch) ==
    IF batch = << >> THEN m
    ELSE BTreeWrite(BTreeApply(m, Head(batch)), Tail(batch))

----------------------------------------------------------------------------
(* Persistent backend (RocksEngine): the database rooted at a path, here a  *)
(* function from its live keys to their values; a library call ends "ok"    *)
(* or with one of the library's errors.                                     *)

NoDb == [exists |-> FALSE, data |-> << >>]
EmptyDb == [exists |-> TRUE, data |-> << >>]

DbPut(data, k, v) == [x \in (DOMAIN data) \cup {k} |-> IF x = k THEN v ELSE data[x]]
DbDelete(data, k) == [x \in (DOMAIN data) \ {k} |-> data[x]]

\* Point lookup; the library's "absent" becomes None.
RocksGet(data, k) == IF k \in DOMAIN data THEN Some(data[k]) ELSE None

\* Forward iterator positioned at or after the probe; at end: None.
RocksSeek(data, q) ==
    LET after == { k \in DOMAIN data : ~LexLess(k, q) }
    IN  IF after = {} THEN None
        ELSE LET k == CHOOSE x \in after : \A y \in after : ~LexLess(y, x)
             IN  Some(<<k, data[k]>>)

\* The modifications are assembled into one write batch ...
RECURSIVE RocksBatch(_, _)
RocksBatch(data, batch) ==
    IF batch = << >> THEN data
    ELSE RocksBatch(IF Head(batch).type = "Put"
                      THEN DbPut(data, Head(batch).key, Head(batch).value)
                      ELSE DbDelete(data, Head(batch).key),
                    Tail(batch))

\* ... and committed atomically: all of it on "ok", none of it on an error.
RocksWrite(db, batch, o) ==
    IF o = "ok" THEN [db EXCEPT !.data = RocksBatch(@, batch)] ELSE db

\* Opens, or creates, the database rooted at the path.
RocksEngineNew(path, dsk, o) ==
    IF o = "ok"
    THEN [res |-> Ok([kind |-> "rocksdb", path |-> path]),
          dsk |-> [dsk EXCEPT ![path] = IF @.exists THEN @ ELSE EmptyDb]]
    ELSE [res |-> Err(Other(o)), dsk |-> dsk]

BTreeEngineNew == [kind |-> "memory", tree |-> BTreeNew]

\* The memory backend returns success for every write.
BTreeEngineWrite(eng, dsk, batch) ==
    [res |-> Ok(Unit), eng |-> [eng EXCEPT !.tree = BTreeWrite(@, batch)], dsk |-> dsk]

RocksEngineWrite(eng, dsk, batch, o) ==
    [res |-> IF o = "ok" THEN Ok(Unit) ELSE Err(Other(o)),
     eng |-> eng,
     dsk |-> [dsk EXCEPT ![eng.path] = RocksWrite(@, batch, o)]]

NoEngine == [kind |-> "none"]

\* The outcomes of one backend call, when the library may report `errs`: the
\* memory backend returns success for every call.
Outcomes(eng, errs) == IF eng.kind = "rocksdb" THEN { "ok" } \cup errs ELSE { "ok" }

----------------------------------------------------------------------------
(* trait Engine: each operation takes the engine, the disk and the outcome  *)
(* of the backend call, and gives the result with the engine and disk after *)

\* Mutant of get: the memory backend takes an empty value for no value.
get_empty_absent(eng, dsk, key, o) ==
    IF eng.kind = "memory"
    THEN LET r == BTreeGet(eng.tree, key)
         IN  IF r.some /\ r.val = << >> THEN Ok(None) ELSE Ok(r)
    ELSE IF o = "ok" THEN Ok(RocksGet(dsk[eng.path].data, key))
    ELSE Err(Other(o))

get(eng, dsk, key, o) ==
    IF eng.kind = "memory" THEN Ok(BTreeGet(eng.tree, key))
    ELSE IF o = "ok" THEN Ok(RocksGet(dsk[eng.path].data, key))
    ELSE Err(Other(o))

\* Mutant of seek: the entry at the probe itself is passed over.
seek_strict(eng, dsk, key, o) ==
    LET next(q) == IF eng.kind = "memory" THEN Ok(BTreeSeek(eng.tree, q))
                   ELSE IF o = "ok" THEN Ok(RocksSeek(dsk[eng.path].data, q))
                   ELSE Err(Other(o))
        r == next(key)
    IN  IF r.ok /\ r.val.some /\ r.val.val[1] = key THEN next(Append(key, 0)) ELSE r

\* Mutant of seek: an empty probe is taken for no probe and finds nothing.
seek_rejects_empty(eng, dsk, key, o) ==
    IF key = << >> THEN Ok(None)
    ELSE IF eng.kind = "memory" THEN Ok(BTreeSeek(eng.tree, key))
    ELSE IF o = "ok" THEN Ok(RocksSeek(dsk[eng.path].data, key))
    ELSE Err(Other(o))

seek(eng, dsk, key, o) ==
    IF eng.kind = "memory" THEN Ok(BTreeSeek(eng.tree, key))
    ELSE IF o = "ok" THEN Ok(RocksSeek(dsk[eng.path].data, key))
    ELSE Err(Other(o))

\* Mutant of write: the batch is applied from its end.
write_reversed(eng, dsk, batch, o) ==
    LET rev == [i \in 1..Len(batch) |-> batch[Len(batch) + 1 - i]]
    IN  IF eng.kind = "memory" THEN BTreeEngineWrite(eng, dsk, rev)
        ELSE RocksEngineWrite(eng, dsk, rev, o)

\* Mutant of write: only the last modification is applied.
write_last_only(eng, dsk, batch, o) ==
    LET lst == IF batch = << >> THEN << >> ELSE << batch[Len(batch)] >>
    IN  IF eng.kind = "memory" THEN BTreeEngineWrite(eng, dsk, lst)
        ELSE RocksEngineWrite(eng, dsk, lst, o)

\* Mutant of write: an empty batch is refused.
write_nonempty(eng, dsk, batch, o) ==
    IF batch = << >> THEN [res |-> Err(Other("empty batch")), eng |-> eng, dsk |-> dsk]
    ELSE IF eng.kind = "memory" THEN BTreeEngineWrite(eng, dsk, batch)
    ELSE RocksEngineWrite(eng, dsk, batch, o)

write(eng, dsk, batch, o) ==
    IF eng.kind = "memory" THEN BTreeEngineWrite(eng, dsk, batch)
    ELSE RocksEngineWrite(eng, dsk, batch, o)

\* Mutant of put: the pair is built the wrong way round.
put_swapped(eng, dsk, key, value, o) == write(eng, dsk, << Put(value, key) >>, o)

\* Mutant of put: the result of write is dropped.
put_ignores_error(eng, dsk, key, value, o) ==
    [write(eng, dsk, << Put(key, value) >>, o) EXCEPT !.res = Ok(Unit)]

\* Mutant of put: an error of write is replaced by one of the wrapper.
put_own_error(eng, dsk, key, value, o) ==
    LET r == write(eng, dsk, << Put(key, value) >>, o)
    IN  IF r.res.ok THEN r ELSE [r EXCEPT !.res = Err(Other("put failed"))]

put(eng, dsk, key, value, o) == write(eng, dsk, << Put(key, value) >>, o)

\* Mutant of delete: nothing is handed to write.
delete_noop(eng, dsk, key, o) == write(eng, dsk, << >>, o)

\* Mutant of delete: the key is overwritten with an empty value.
delete_tombstone(eng, dsk, key, o) == write(eng, dsk, << Put(key, << >>) >>, o)

\* Mutant of delete: a key that is not there is an error.
delete_checked(eng, dsk, key, o) ==
    IF get(eng, dsk, key, o) = Ok(None)
    THEN [res |-> Err(Other("NotFound")), eng |-> eng, dsk |-> dsk]
    ELSE write(eng, dsk, << Delete(key) >>, o)

delete(eng, dsk, key, o) == write(eng, dsk, << Delete(key) >>, o)

\* Mutant of new_engine: the memory descriptor opens the persistent backend.
new_engine_default_path(desc, dsk, o) ==
    RocksEngineNew(IF desc.type = "Memory" THEN "/tmp/rocks" ELSE desc.path, dsk, o)

\* Mutant of new_engine: opening a path starts a new database there.
new_engine_truncates(desc, dsk, o) ==
    IF desc.type = "Memory" THEN [res |-> Ok(BTreeEngineNew), dsk |-> dsk]
    ELSE LET r == RocksEngineNew(desc.path, dsk, o)
         IN  IF r.res.ok THEN [r EXCEPT !.dsk[desc.path] = EmptyDb] ELSE r

\* Mutant of new_engine: the memory engine is made through the library too,
\* and fails when the library does.
new_engine_memory_fallible(desc, dsk, o) ==
    IF o # "ok" THEN [res |-> Err(Other(o)), dsk |-> dsk]
    ELSE IF desc.type = "Memory" THEN [res |-> Ok(BTreeEngineNew), dsk |-> dsk]
    ELSE RocksEngineNew(desc.path, dsk, o)

\* Mutant of new_engine: when the path cannot be opened a memory engine is
\* returned in its place.
new_engine_fallback(desc, dsk, o) ==
    IF desc.type = "Memory" \/ o # "ok"
    THEN [res |-> Ok(BTreeEngineNew), dsk |-> dsk]
    ELSE RocksEngineNew(desc.path, dsk, o)

\* Mutant of new_engine: every memory engine is kept in one scratch database.
new_engine_shared_scratch(desc, dsk, o) ==
    RocksEngineNew(IF desc.type = "Memory" THEN "/tmp/new" ELSE desc.path, dsk, o)

new_engine(desc, dsk, o) ==
    IF desc.type = "Memory"
    THEN [res |-> Ok(BTreeEngineNew), dsk |-> dsk]
    ELSE RocksEngineNew(desc.path, dsk, o)

----------------------------------------------------------------------------
(* History: what the caller did, kept beside the engine to state the laws.  *)
(* hist[h].mods[k] is the caller's last successful modification of k on the *)
(* handle; hist[h].base is what the store held when the handle was made;    *)
(* hist[h].created tells that new_engine made the store (it held nothing).  *)
(* A delete call also records whether the reference map held its key.       *)

NoMod == [kind |-> "none"]

NoHist ==
    [created |-> FALSE, base |-> [k \in Keys |-> None], mods |-> [k \in Keys |-> NoMod]]

\* The reference map: what the caller's own calls say k holds.
RefGet(hs, k) ==
    CASE hs.mods[k].kind = "put" -> Some(hs.mods[k].val)
      [] hs.mods[k].kind = "delete" -> None
      [] OTHER -> hs.base[k]

HistApply(hs, mod) ==
    [hs EXCEPT !.mods[mod.key] =
        IF mod.type = "Put" THEN [kind |-> "put", val |-> mod.value]
        ELSE [kind |-> "delete"]]

RECURSIVE HistAfter(_, _)
HistAfter(hs, batch) ==
    IF batch = << >> THEN hs
    ELSE HistAfter(HistApply(hs, Head(batch)), Tail(batch))

\* What the store of a descriptor holds before new_engine opens it.
BaseOf(desc, dsk) ==
    [k \in Keys |->
        IF desc.type = "RocksDBPath" /\ k \in DOMAIN dsk[desc.path].data
        THEN Some(dsk[desc.path].data[k]) ELSE None]

HistNew(desc, dsk) ==
    [created |-> desc.type = "Memory" \/ ~dsk[desc.path].exists,
     base |-> BaseOf(desc, dsk),
     mods |-> [k \in Keys |-> NoMod]]

----------------------------------------------------------------------------
(* The calls *)

Call(op, h, args, res) == [op |-> op, h |-> h, args |-> args, res |-> res]

Live(h) == engines[h] # NoEngine

\* Single-opener discipline: the caller opens a path in one handle at a time.
Opened(p) == \E h \in Handles : engines[h].kind = "rocksdb" /\ engines[h].path = p

NewEngine(h, desc, errs) ==
    /\ ~Live(h)
    /\ desc.type = "RocksDBPath" => ~Opened(desc.path)
    /\ \E o \in (IF desc.type = "Memory" THEN { "ok" } ELSE { "ok" } \cup errs) :
         LET r == new_engine(desc, disk, o)
         IN  /\ engines' = IF r.res.ok THEN [engines EXCEPT ![h] = r.res.val] ELSE engines
             /\ disk' = r.dsk
             /\ hist' = IF r.res.ok THEN [hist EXCEPT ![h] = HistNew(desc, disk)] ELSE hist
             /\ last' = Call("new_engine", h, <<desc>>, r.res)

\* Mutant of GetCall: a get takes the entry it reads out of the store.
GetCall_takes(h, key, errs) ==
    /\ Live(h)
    /\ \E o \in Outcomes(engines[h], errs) :
         LET w == write(engines[h], disk, << Delete(key) >>, o)
         IN  /\ last' = Call("get", h, <<key>>, get(engines[h], disk, key, o))
             /\ engines' = [engines EXCEPT ![h] = w.eng]
             /\ disk' = w.dsk
    /\ UNCHANGED hist

GetCall(h, key, errs) ==
    /\ Live(h)
    /\ \E o \in Outcomes(engines[h], errs) :
         last' = Call("get", h, <<key>>, get(engines[h], disk, key, o))
    /\ UNCHANGED <<engines, disk, hist>>

SeekCall(h, key, errs) ==
    /\ Live(h)
    /\ \E o \in Outcomes(engines[h], errs) :
         last' = Call("seek", h, <<key>>, seek(engines[h], disk, key, o))
    /\ UNCHANGED <<engines, disk, hist>>

\* A modifying call that returned r: the caller asked for `batch`.
Modified(op, h, args, batch, r) ==
    /\ engines' = [engines EXCEPT ![h] = r.eng]
    /\ disk' = r.dsk
    /\ hist' = IF r.res.ok THEN [hist EXCEPT ![h] = HistAfter(@, batch)] ELSE hist
    /\ last' = Call(op, h, args, r.res)

\* What is recorded of a batch: its length, how many keys it touches and how
\* many of its modifications are Puts.
BatchShape(batch) ==
    << Len(batch),
       Cardinality({ batch[i].key : i \in DOMAIN batch }),
       Cardinality({ i \in DOMAIN batch : batch[i].type = "Put" }) >>

WriteCall(h, batch, errs) ==
    /\ Live(h)
    /\ \E o \in Outcomes(engines[h], errs) :
         Modified("write", h, BatchShape(batch), batch, write(engines[h], disk, batch, o))

PutCall(h, key, value, errs) ==
    /\ Live(h)
    /\ \E o \in Outcomes(engines[h], errs) :
         Modified("put", h, <<key, value>>, << Put(key, value) >>,
                  put(engines[h], disk, key, value, o))

DeleteCall(h, key, errs) ==
    /\ Live(h)
    /\ \E o \in Outcomes(engines[h], errs) :
         Modified("delete", h, <<key, RefGet(hist[h], key).some>>, << Delete(key) >>,
                  delete(engines[h], disk, key, o))

----------------------------------------------------------------------------
(* The specification: one handle, made once and used by sequential calls *)

\* The database an earlier run has left at /tmp/rocks.
SeedDb == [exists |-> TRUE, data |-> [k \in { <<200>> } |-> <<1>>]]

Init ==
    /\ engines = [h \in Handles |-> NoEngine]
    /\ disk = [p \in Paths |-> IF p = "/tmp/rocks" THEN SeedDb ELSE NoDb]
    /\ hist = [h \in Handles |-> NoHist]
    /\ last = Call("none", 0, << >>, Ok(Unit))

\* The calls of the handles hs on engines made from the descriptors descs,
\* calling put and delete on the keys ks, when the library may report the
\* errors errs.
NextOn(hs, descs, ks, errs) ==
    \E h \in hs :
        \/ \E desc \in descs : NewEngine(h, desc, errs)
        \/ \E key \in Keys : GetCall(h, key, errs)
        \/ \E key \in Probes : SeekCall(h, key, errs)
        \/ \E batch \in BatchesOn(BatchKeys) : WriteCall(h, batch, errs)
        \/ \E key \in ks, value \in Values : PutCall(h, key, value, errs)
        \/ \E key \in ks : DeleteCall(h, key, errs)

\* Every call of the library completes.
Next == NextOn(SpecHandles, Descriptors, Keys, {})

Spec == Init /\ [][Next]_vars

\* The persistent backend at the path of the test, whose library may fail
\* any call.
FaultNext == NextOn(SpecHandles, { RocksDBPath("/tmp/rocks") }, BatchKeys, BackendErrors)

FaultSpec == Init /\ [][FaultNext]_vars

----------------------------------------------------------------------------
(* The life of a handle: made, used, dropped, and its path opened again *)

\* What the caller knows a store to hold when its handle is let go.
HistFold(hs) ==
    [hs EXCEPT !.base = [k \in Keys |-> RefGet(hs, k)], !.mods = [k \in Keys |-> NoMod]]

\* The handle goes out of scope: a memory engine is gone with all it held, a
\* persistent one leaves its database at its path.
DropCall(h) ==
    /\ Live(h)
    /\ engines' = [engines EXCEPT ![h] = NoEngine]
    /\ hist' = [hist EXCEPT ![h] = IF engines[h].kind = "rocksdb" THEN HistFold(@) ELSE NoHist]
    /\ last' = Call("drop", h,
                    << IF engines[h].kind = "rocksdb" THEN engines[h].path ELSE "memory" >>,
                    Ok(Unit))
    /\ UNCHANGED disk

\* Handles that are made, used, dropped and made again, over the memory
\* backend and the path of the test; every call of the library completes.
ReopenNext ==
    \/ NextOn(SpecHandles, { Memory, RocksDBPath("/tmp/rocks") }, BatchKeys, {})
    \/ \E h \in SpecHandles : DropCall(h)

ReopenSpec == Init /\ [][ReopenNext]_vars

----------------------------------------------------------------------------
(* The two backends side by side: handle 1 holds a memory engine, handle 2  *)
(* a persistent engine at a path that held no database, and the caller      *)
(* makes on handle 2 the calls it made on handle 1.                         *)

\* The caller has modified both handles alike.
InSync == Live(1) /\ Live(2) /\ hist[1].mods = hist[2].mods

PairNext ==
    \/ NewEngine(1, Memory, {})
    \/ NewEngine(2, RocksDBPath("/tmp/new"), {})
    \/ \E h \in Handles, key \in Keys : GetCall(h, key, {})
    \/ \E h \in Handles, key \in Probes : SeekCall(h, key, {})
    \/ /\ InSync
       /\ \/ \E batch \in BatchesOn(BatchKeys) : WriteCall(1, batch, {})
          \/ \E key \in Keys, value \in Values : PutCall(1, key, value, {})
          \/ \E key \in Keys : DeleteCall(1, key, {})
    \/ /\ Live(1) /\ Live(2) /\ ~InSync
       /\ \/ \E batch \in BatchesOn(BatchKeys) : WriteCall(2, batch, {})
          \/ \E key \in Keys, value \in Values : PutCall(2, key, value, {})
          \/ \E key \in Keys : DeleteCall(2, key, {})
       /\ hist'[1].mods = hist'[2].mods

PairSpec == Init /\ [][PairNext]_vars

----------------------------------------------------------------------------
(* Two handles, each made by its own new_engine(Descriptor::Memory) *)

\* Both handles put and delete the keys of BatchKeys and hand to write
\* batches on the empty key.
IsoNext ==
    \E h \in Handles :
        \/ NewEngine(h, Memory, {})
        \/ \E key \in Keys : GetCall(h, key, {})
        \/ \E key \in Probes : SeekCall(h, key, {})
        \/ \E batch \in BatchesOn({ << >> }) : WriteCall(h, batch, {})
        \/ \E key \in BatchKeys, value \in Values : PutCall(h, key, value, {})
        \/ \E key \in BatchKeys : DeleteCall(h, key, {})

IsoSpec == Init /\ [][IsoNext]_vars

----------------------------------------------------------------------------
(* What the claims speak of *)

\* What get(k) and seek(q) return on handle h when the backend answers.
GetOf(h, k) == get(engines[h], disk, k, "ok")
SeekOf(h, q) == seek(engines[h], disk, q, "ok")

\* The keys of handle h that get finds.
LiveKeys(h) == { k \in Keys : GetOf(h, k).val.some }

\* The key order as the contract states it: a precedes b when a is a proper
\* prefix of b, or a holds the smaller byte at the first position they differ.
Precedes(a, b) ==
    \/ Len(a) < Len(b) /\ \A i \in 1..Len(a) : a[i] = b[i]
    \/ \E i \in 1..Len(a) :
          /\ i <= Len(b)
          /\ a[i] < b[i]
          /\ \A j \in 1..(i - 1) : a[j] = b[j]

AtOrAfter(k, q) == k = q \/ Precedes(q, k)

\* The last call was `op` on handle h and returned success.
Returned(op, h) == last.op = op /\ last.h = h /\ last.res.ok

----------------------------------------------------------------------------
\* C1: once put(k, v) has returned success on a handle, get(k) returns v
\* until k is modified again, whatever is done to the other keys: the key
\* whose last successful modification is a put of v holds v (so after
\* put(k, v1); put(k, v2) it holds v2), and it does right after the put.
PutThenGet ==
    \A h \in Handles : Live(h) =>
        /\ \A k \in Keys :
              hist[h].mods[k].kind = "put" => GetOf(h, k) = Ok(Some(hist[h].mods[k].val))
        /\ Returned("put", h) => GetOf(h, last.args[1]) = Ok(Some(last.args[2]))

\* A put of k still shows after a later successful delete of another key.
PutThenGetWitness ==
    \E h \in Handles, k \in Keys :
        /\ Returned("delete", h)
        /\ last.args[1] # k
        /\ last.args[2]
        /\ hist[h].mods[k].kind = "put"
        /\ GetOf(h, k) = Ok(Some(<<1>>))

\* C2: once delete(k) has returned success on a handle, get(k) returns
\* absent until k is put again, whatever is done to the other keys (so after
\* put(k, v); delete(k) it is absent), and it does right after the delete.
DeleteThenGet ==
    \A h \in Handles : Live(h) =>
        /\ \A k \in Keys : hist[h].mods[k].kind = "delete" => GetOf(h, k) = Ok(None)
        /\ Returned("delete", h) => GetOf(h, last.args[1]) = Ok(None)

\* A key that this handle had put and then a delete found and removed is
\* absent.
DeleteThenGetWitness ==
    \E h \in Handles :
        /\ Returned("delete", h)
        /\ last.args[2]
        /\ hist[h].created
        /\ GetOf(h, last.args[1]) = Ok(None)

\* C3: seek(q) returns the entry of the smallest live key at or after q in
\* the lexicographic order of unsigned bytes, with the value get returns for
\* that key, and absent exactly when no live key is at or after q; it never
\* returns a key whose last modification is a delete.
SeekLeast ==
    \A h \in Handles : Live(h) =>
        \A q \in Probes :
            LET r == SeekOf(h, q)
                after == { k \in LiveKeys(h) : AtOrAfter(k, q) }
            IN  /\ r.ok
                /\ r.val.some <=> after # {}
                /\ r.val.some =>
                      /\ r.val.val[1] \in after
                      /\ \A j \in after : AtOrAfter(j, r.val.val[1])
                      /\ GetOf(h, r.val.val[1]) = Ok(Some(r.val.val[2]))
                      /\ hist[h].mods[r.val.val[1]].kind # "delete"

\* A seek from a probe that is no key skipped a deleted key and returned the
\* live key after it, while a live key before the probe exists.
SeekLeastWitness ==
    \E h \in Handles :
        /\ Returned("seek", h)
        /\ last.args[1] = <<1>>
        /\ hist[h].mods[<<1, 200>>].kind = "delete"
        /\ last.res.val = Some(<< <<200>>, <<>> >>)
        /\ <<>> \in LiveKeys(h)

\* The positions of a batch that modify k, and the last of them.
Touching(batch, k) == { i \in DOMAIN batch : batch[i].key = k }
LastModify(batch, k) ==
    batch[CHOOSE i \in Touching(batch, k) : \A j \in Touching(batch, k) : j <= i]

\* What a modification leaves at its key.
EffectOf(mod) == IF mod.type = "Put" THEN Some(mod.value) ELSE None

\* The last call was a put, a delete or a write.
ModCalls == { "write", "put", "delete" }

\* C4: a write (alone or through put and delete) is all or nothing: when it
\* returns success the store shows every modification of the caller (it
\* agrees with the reference map on every key), and when it returns an error
\* the engine and the disk are exactly as before, so every get and seek
\* returns what it returned before.
WriteAtomic ==
    [][ \A h \in Handles : (last'.op \in ModCalls /\ last'.h = h) =>
          IF last'.res.ok
          THEN \A k \in Keys : GetOf(h, k)' = Ok(RefGet(hist'[h], k))
          ELSE /\ engines' = engines
               /\ disk' = disk
               /\ \A k \in Keys : GetOf(h, k)' = GetOf(h, k)
               /\ \A q \in Probes : SeekOf(h, q)' = SeekOf(h, q)
      ]_vars

\* A write of two modifications on two keys failed on a store that holds a key.
WriteAtomicWitness ==
    \E h \in Handles :
        /\ last.op = "write" /\ last.h = h /\ ~last.res.ok
        /\ last.args = <<2, 2, 2>>
        /\ LiveKeys(h) # {}

\* C5: a successful write applies its modifications in the order given: from
\* every reachable state and for every batch, each key the batch touches
\* holds afterwards what the last modification of that key in the batch
\* leaves (the later Put of two, absent for Put then Delete, the value for
\* Delete then Put).
BatchLastWins ==
    \A h \in Handles : Live(h) =>
        \A batch \in Batches :
            LET r == write(engines[h], disk, batch, "ok")
            IN  /\ r.res = Ok(Unit)
                /\ \A k \in Keys : Touching(batch, k) # {} =>
                      get(r.eng, r.dsk, k, "ok") = Ok(EffectOf(LastModify(batch, k)))

\* A write of a Put and a Delete of one key has returned and the key is
\* absent: the batch was [Put(k, v), Delete(k)].
BatchLastWinsWitness ==
    \E h \in Handles, k \in Keys :
        /\ Returned("write", h)
        /\ last.args = <<2, 1, 1>>
        /\ hist[h].mods[k].kind = "delete"
        /\ \A j \in Keys \ {k} : hist[h].mods[j] = NoMod
        /\ GetOf(h, k) = Ok(None)

\* C6: a successful write of a batch that touches several distinct keys
\* shows every one of its modifications: from every reachable state, each
\* key of such a batch holds afterwards what its modification leaves (both
\* values after two Puts, absent for both keys after two Deletes).
BatchAllVisible ==
    \A h \in Handles : Live(h) =>
        \A batch \in Batches :
            (Len(batch) >= 2 /\ BatchShape(batch)[2] = Len(batch)) =>
                LET r == write(engines[h], disk, batch, "ok")
                IN  /\ r.res = Ok(Unit)
                    /\ \A i \in DOMAIN batch :
                          get(r.eng, r.dsk, batch[i].key, "ok") = Ok(EffectOf(batch[i]))

\* A write of two Puts on two keys has returned on a store that held
\* neither, and both keys hold their values: the write([Put(a, 1), Put(b, 2)])
\* of the test.
BatchAllVisibleWitness ==
    \E h \in Handles, a \in Keys, b \in Keys :
        /\ a # b
        /\ Returned("write", h)
        /\ last.args = <<2, 2, 2>>
        /\ hist[h].created
        /\ \A j \in Keys \ {a, b} : hist[h].mods[j] = NoMod
        /\ GetOf(h, a) = Ok(Some(<<>>)) /\ GetOf(h, b) = Ok(Some(<<1>>))

\* C7: on a handle, get(k) returns for every key what the most recent
\* successful modification of k left, in calling order and in list order
\* inside a batch: the engine agrees with the reference map updated by the
\* same calls; a key never put in a store that new_engine made is absent.
RefinesReference ==
    \A h \in Handles : Live(h) =>
        \A k \in Keys :
            /\ GetOf(h, k) = Ok(RefGet(hist[h], k))
            /\ (hist[h].created /\ hist[h].mods[k] = NoMod) => GetOf(h, k) = Ok(None)

\* After a batch of a Put and a Delete on two keys: a key that was put, a
\* key that was deleted, and a key never touched.
RefinesReferenceWitness ==
    \E h \in Handles, a \in Keys, b \in Keys, c \in Keys :
        /\ Returned("write", h)
        /\ last.args = <<2, 2, 1>>
        /\ hist[h].created
        /\ hist[h].mods[a].kind = "put"
        /\ hist[h].mods[b].kind = "delete"
        /\ hist[h].mods[c] = NoMod

\* C8: on an engine that new_engine has just made over no earlier data (a
\* memory engine, or a persistent one at a path that held no database) and
\* that nothing has been written to, get and seek return absent for every key.
FreshEngineEmpty ==
    \A h \in Handles :
        (Live(h) /\ hist[h].created /\ \A k \in Keys : hist[h].mods[k] = NoMod) =>
            /\ \A k \in Keys : GetOf(h, k) = Ok(None)
            /\ \A q \in Probes : SeekOf(h, q) = Ok(None)

\* A seek on a fresh persistent engine returned absent.
FreshEngineEmptyWitness ==
    \E h \in Handles :
        /\ Returned("seek", h)
        /\ engines[h].kind = "rocksdb"
        /\ hist[h].created
        /\ \A k \in Keys : hist[h].mods[k] = NoMod
        /\ last.res.val = None

\* C9: delete(k) of a key that get does not find returns success and changes
\* no result of get or seek.
DeleteAbsentNoop ==
    [][ \A h \in Handles :
          (last'.op = "delete" /\ last'.h = h /\ GetOf(h, last'.args[1]) = Ok(None)) =>
              /\ last'.res = Ok(Unit)
              /\ \A k \in Keys : GetOf(h, k)' = GetOf(h, k)
              /\ \A q \in Probes : SeekOf(h, q)' = SeekOf(h, q)
      ]_vars

\* A delete of a key the store did not hold has returned, on a store that
\* holds another key.
DeleteAbsentNoopWitness ==
    \E h \in Handles :
        /\ Returned("delete", h)
        /\ ~last.args[2]
        /\ LiveKeys(h) # {}

\* C10: write of the empty batch returns success and changes no result of
\* get or seek.
EmptyBatchNoop ==
    [][ \A h \in Handles :
          (last'.op = "write" /\ last'.h = h /\ last'.args[1] = 0) =>
              /\ last'.res = Ok(Unit)
              /\ \A k \in Keys : GetOf(h, k)' = GetOf(h, k)
              /\ \A q \in Probes : SeekOf(h, q)' = SeekOf(h, q)
      ]_vars

\* A write of the empty batch has returned on a store that holds a key.
EmptyBatchNoopWitness ==
    \E h \in Handles :
        /\ Returned("write", h)
        /\ last.args = <<0, 0, 0>>
        /\ LiveKeys(h) # {}

----------------------------------------------------------------------------
\* The errors a failing call of the library hands to the engine layer.
LibraryErrors == { Other(e) : e \in BackendErrors }

\* C11: put(key, value) is exactly write([Put(key, value)]) and delete(key)
\* is exactly write([Delete(key)]): from every reachable state and for every
\* outcome of the backend call, the wrapper returns the same result and
\* leaves the same engine and disk as the singleton write; a put or delete
\* that has failed returned the error of the library as it was.
WrappersAreSingletonWrites ==
    /\ \A h \in Handles : Live(h) =>
          \A o \in Outcomes(engines[h], BackendErrors), k \in Keys :
              /\ delete(engines[h], disk, k, o) = write(engines[h], disk, << Delete(k) >>, o)
              /\ \A v \in Values :
                    put(engines[h], disk, k, v, o) = write(engines[h], disk, << Put(k, v) >>, o)
    /\ (last.op \in { "put", "delete" } /\ ~last.res.ok) => last.res.err \in LibraryErrors

\* A put has returned the library's "Corruption" on a store that holds a key.
WrappersAreSingletonWritesWitness ==
    \E h \in Handles :
        /\ last.op = "put" /\ last.h = h
        /\ last.res = Err(Other("Corruption"))
        /\ LiveKeys(h) # {}

\* The last call was a get or a seek.
ReadCalls == { "get", "seek" }

\* C12: get and seek are read-only: a step in which either returns, be it a
\* value, absent or an error, leaves every engine and the disk as they were,
\* so every get and seek returns afterwards what it returned before.
ReadOnly ==
    [][ last'.op \in ReadCalls =>
          /\ engines' = engines
          /\ disk' = disk
          /\ \A h \in Handles : Live(h) =>
                /\ \A k \in Keys : GetOf(h, k)' = GetOf(h, k)
                /\ \A q \in Probes : SeekOf(h, q)' = SeekOf(h, q)
      ]_vars

\* A get has returned an error on a store that holds a key.
ReadOnlyWitness ==
    \E h \in Handles :
        /\ last.op = "get" /\ last.h = h
        /\ ~last.res.ok
        /\ LiveKeys(h) # {}

\* C13: the state of a persistent store survives its handle: when a handle
\* on path P is dropped and new_engine opens P again, get returns for every
\* key what the caller's successful calls had left there (after put(k, v),
\* v), and an engine opened over a store that holds data is not empty.
PersistsAcrossReopen ==
    [][ \A h \in Handles :
          ( /\ last.op = "drop" /\ last.h = h
            /\ last'.op = "new_engine" /\ last'.h = h /\ last'.res.ok
            /\ last'.args[1] = RocksDBPath(last.args[1]) ) =>
              /\ \A k \in Keys : GetOf(h, k)' = Ok(hist[h].base[k])
              /\ (\E k \in Keys : hist[h].base[k].some) => LiveKeys(h)' # {}
      ]_vars

\* new_engine has opened the path again and the engine holds under the
\* empty key, which the earlier run had not written, the value an earlier
\* handle of this run has put there.
PersistsAcrossReopenWitness ==
    \E h \in Handles :
        /\ Returned("new_engine", h)
        /\ engines[h] = [kind |-> "rocksdb", path |-> "/tmp/rocks"]
        /\ \A k \in Keys : hist[h].mods[k] = NoMod
        /\ GetOf(h, << >>) = Ok(Some(<<1>>))

\* C14: the two backends cannot be told apart: whenever the same successful
\* put, delete and write calls have been made on a memory engine and on a
\* persistent engine that both started empty, every get and every seek
\* returns the same on both.
BackendsAgree ==
    (InSync /\ hist[1].created /\ hist[2].created) =>
        /\ engines[1].kind = "memory" /\ engines[2].kind = "rocksdb"
        /\ \A k \in Keys : GetOf(1, k) = GetOf(2, k)
        /\ \A q \in Probes : SeekOf(1, q) = SeekOf(2, q)

\* Both engines have seen the same calls, the last a write of a Put and a
\* Delete on two keys, and a seek from a probe that is no key returns an
\* entry on both.
BackendsAgreeWitness ==
    /\ InSync
    /\ Returned("write", 2)
    /\ last.args = <<2, 2, 1>>
    /\ SeekOf(1, <<1>>).val.some
    /\ SeekOf(2, <<1>>).val.some

\* C15: new_engine(Descriptor::Memory) always succeeds: at every reachable
\* state, whatever engines were made before and whatever the library would
\* answer, it returns a memory engine and leaves the disk alone; the engine
\* it has returned is in the handle and answers get.
MemoryAlwaysOpens ==
    /\ \A o \in { "ok" } \cup BackendErrors :
          new_engine(Memory, disk, o) = [res |-> Ok(BTreeEngineNew), dsk |-> disk]
    /\ \A h \in Handles :
          (last.op = "new_engine" /\ last.h = h /\ last.args[1] = Memory) =>
              /\ last.res = Ok(BTreeEngineNew)
              /\ engines[h] = last.res.val
              /\ \A k \in Keys : GetOf(h, k) = Ok(None)

\* A memory engine has been made after a persistent engine of this run was
\* made, written to and dropped.
MemoryAlwaysOpensWitness ==
    \E h \in Handles :
        /\ Returned("new_engine", h)
        /\ last.args[1] = Memory
        /\ engines[h].kind = "memory"
        /\ disk["/tmp/rocks"] # SeedDb

\* C16: new_engine(Descriptor::RocksDBPath(p)) returns the opened engine or
\* the error, never both and nothing else: for every reachable state, path
\* and answer of the library, success yields the persistent engine at p and
\* a failure yields the library's error as it is, with the disk untouched;
\* after a failed call the handle holds no engine (no memory engine in its
\* place), after a successful one it holds the engine returned.
PersistentOpensOrFails ==
    /\ \A p \in Paths, o \in { "ok" } \cup BackendErrors :
          LET r == new_engine(RocksDBPath(p), disk, o)
          IN  IF o = "ok"
              THEN r.res = Ok([kind |-> "rocksdb", path |-> p])
              ELSE r.res = Err(Other(o)) /\ r.dsk = disk
    /\ \A h \in Handles :
          (last.op = "new_engine" /\ last.h = h /\ last.args[1].type = "RocksDBPath") =>
              IF last.res.ok
              THEN /\ engines[h] = last.res.val
                   /\ engines[h] = [kind |-> "rocksdb", path |-> last.args[1].path]
              ELSE /\ last.res.err \in LibraryErrors
                   /\ engines[h] = NoEngine

\* Opening the path has failed with the library's "IO error" and the handle
\* holds no engine.
PersistentOpensOrFailsWitness ==
    \E h \in Handles :
        /\ last.op = "new_engine" /\ last.h = h
        /\ last.args[1] = RocksDBPath("/tmp/rocks")
        /\ last.res = Err(Other("IO error"))
        /\ engines[h] = NoEngine

\* C17: the empty byte string is a key like any other and the least of the
\* order: a put of it succeeds and get returns the value put, and seek from
\* the empty probe returns the entry of the smallest live key of the whole
\* store (the entry of the empty key when that is live), with the value get
\* returns for it, and absent exactly when the store holds no key.
EmptyKeyMinimum ==
    /\ \A k \in Keys : AtOrAfter(k, << >>)
    /\ \A h \in Handles : Live(h) =>
          /\ hist[h].mods[<< >>].kind = "put" =>
                GetOf(h, << >>) = Ok(Some(hist[h].mods[<< >>].val))
          /\ (last.op = "put" /\ last.h = h /\ last.args[1] = << >>) =>
                last.res = Ok(Unit) /\ GetOf(h, << >>) = Ok(Some(last.args[2]))
          /\ LET r == SeekOf(h, << >>)
             IN  /\ r.ok
                 /\ r.val.some <=> LiveKeys(h) # {}
                 /\ r.val.some =>
                       /\ r.val.val[1] \in LiveKeys(h)
                       /\ \A j \in LiveKeys(h) : AtOrAfter(j, r.val.val[1])
                       /\ GetOf(h, r.val.val[1]) = Ok(Some(r.val.val[2]))
                       /\ << >> \in LiveKeys(h) => r.val.val[1] = << >>

\* The empty key was put with the empty value and seek from the empty probe
\* has returned its entry, while two longer keys are live.
EmptyKeyMinimumWitness ==
    \E h \in Handles :
        /\ Returned("seek", h)
        /\ last.args[1] = << >>
        /\ hist[h].mods[<< >>] = [kind |-> "put", val |-> << >>]
        /\ last.res.val = Some(<< << >>, << >> >>)
        /\ LiveKeys(h) = Keys

\* C18: each handle owns its state: with two handles, each made by its own
\* new_engine(Descriptor::Memory), a write, put or delete on one leaves the
\* engine of the other as it was, and every get and seek on the other
\* returns what it returned before.
HandlesIsolated ==
    [][ \A h \in Handles, g \in Handles :
          (h # g /\ Live(g) /\ last'.op \in ModCalls /\ last'.h = h) =>
              /\ engines'[g] = engines[g]
              /\ \A k \in Keys : GetOf(g, k)' = GetOf(g, k)
              /\ \A q \in Probes : SeekOf(g, q)' = SeekOf(g, q)
      ]_vars

\* Handle 1 has deleted in a write the key that it and handle 2 had put, and
\* handle 2 still holds it.
HandlesIsolatedWitness ==
    /\ Returned("write", 1)
    /\ last.args = <<1, 1, 0>>
    /\ hist[1].mods[<< >>].kind = "delete"
    /\ GetOf(1, << >>) = Ok(None)
    /\ Live(2)
    /\ GetOf(2, << >>) = Ok(Some(<<1>>))

\* C19: Error::Other shows through to the error it wraps: for every error of
\* the library, and for the error of every call that has failed, the
\* displayed text, the description and the cause of Other(e) are those of e,
\* the cause being the cause of e and not e itself; the error a caller sees
\* is an error of the library under the one kind Other.
ErrorTransparent ==
    /\ \A e \in BackendErrors :
          /\ fmt(Other(e)) = ErrorObject(e).display
          /\ description(Other(e)) = ErrorObject(e).description
          /\ cause(Other(e)) = ErrorObject(e).cause
          /\ cause(Other(e)) # Some(e)
    /\ ~last.res.ok =>
          /\ last.res.err.kind = "Other"
          /\ last.res.err.error \in BackendErrors
          /\ fmt(last.res.err) = ErrorObject(last.res.err.error).display
          /\ description(last.res.err) = ErrorObject(last.res.err.error).description
          /\ cause(last.res.err) = ErrorObject(last.res.err.error).cause

\* A seek has failed with the library's "IO error": the caller reads its
\* text and finds the error that caused it.
ErrorTransparentWitness ==
    /\ last.op = "seek"
    /\ last.res = Err(Other("IO error"))
    /\ fmt(last.res.err) = "IO error: No space left on device"
    /\ cause(last.res.err) = Some("No space left on device")

====
